---- MODULE Spec2Model ----
(***************************************************************************)
(* A model of the XML property-list codec: the streaming writer            *)
(* (src/xml/writer.rs), the streaming reader (src/xml/reader.rs) and the   *)
(* wire between them (the xml-rs emitter and tokenizer as configured by    *)
(* the two constructors), and the serde bridge onto the writer             *)
(* (src/ser.rs).                                                           *)
(*                                                                         *)
(* Text is a sequence of one-character strings, so that formatting,        *)
(* parsing, escaping and base64 are computed character by character.       *)
(***************************************************************************)
EXTENDS Integers, Sequences, FiniteSets, TLC

\* ------------------------------------------------------------------ bounds

\* write calls made on one Writer instance (Spec)
MaxWrites == 4
\* tokens of an arbitrary tokenizer stream handed to the reader (ReaderSpec)
MaxTokens == 4
\* events of one well-formed document written and read back (RoundTripSpec)
MaxDocEvents == 5
\* serialize calls made on one Serializer instance (BridgeSpec)
MaxSerializes == 2
\* events of one short document of every kind of element (MappingSpec)
MaxMapEvents == 5
\* write calls made on one Writer instance, of fewer events (NestSpec)
MaxNestWrites == 6
\* tokens of a stream of leaf elements handed to the reader (LeafSpec)
MaxLeafTokens == 3

VARIABLES
    stack,          \* EventWriter.stack: Vec<Element>, top is the last element
    out,            \* the calls made on EventWriter.xml_writer, in order
    calls,          \* history: one record per write call
    phase,          \* "write" | "read": which half of the codec is running
    tokens,         \* the tokenizer's finite token stream (before EndDocument)
    pos,            \* number of tokens the tokenizer has handed out
    element_stack,  \* StreamingParser.element_stack: Vec<String>
    items,          \* history: the items next() has returned, in order
    rlast,          \* history: the last iteration of next()'s loop
    tick,           \* parity of the number of loop iterations made
    ser             \* history: one record per serialize call on the Serializer

vars == <<stack, out, calls, phase, tokens, pos, element_stack, items, rlast, tick, ser>>

\* ------------------------------------------------------------ sequences

Last(s) == s[Len(s)]

Front(s) == SubSeq(s, 1, Len(s) - 1)

RECURSIVE ConcatRange(_, _, _)
ConcatRange(ss, lo, hi) ==
    IF lo > hi THEN <<>>
    ELSE IF lo = hi THEN ss[lo]
    ELSE ConcatRange(ss, lo, (lo + hi) \div 2) \o ConcatRange(ss, (lo + hi) \div 2 + 1, hi)

\* the concatenation of a sequence of sequences
Concat(ss) == ConcatRange(ss, 1, Len(ss))

IsPrefix(s, t) == Len(s) <= Len(t) /\ SubSeq(t, 1, Len(s)) = s

\* ------------------------------------------------------------- the events

NoReal == [m |-> 0, e |-> 0]

NoDate == [year |-> 0, month |-> 0, day |-> 0, hour |-> 0, minute |-> 0, second |-> 0]

\* PlistEvent.  Every event is a record of one shape; a field that the
\* variant does not carry holds the default.  hint is <<>> for None and
\* <<n>> for Some(n).  A real is the decimal m / 10^e.
Ev(kind) ==
    [kind |-> kind, hint |-> <<>>, b |-> FALSE, n |-> 0, real |-> NoReal,
     text |-> <<>>, bytes |-> <<>>, date |-> NoDate]

StartPlist == Ev("StartPlist")

EndPlist == Ev("EndPlist")

StartArray(h) == [Ev("StartArray") EXCEPT !.hint = h]

EndArray == Ev("EndArray")

StartDictionary(h) == [Ev("StartDictionary") EXCEPT !.hint = h]

EndDictionary == Ev("EndDictionary")

BooleanValue(b) == [Ev("BooleanValue") EXCEPT !.b = b]

IntegerValue(n) == [Ev("IntegerValue") EXCEPT !.n = n]

RealValue(r) == [Ev("RealValue") EXCEPT !.real = r]

StringValue(s) == [Ev("StringValue") EXCEPT !.text = s]

DataValue(bs) == [Ev("DataValue") EXCEPT !.bytes = bs]

DateValue(d) == [Ev("DateValue") EXCEPT !.date = d]

ScalarKinds ==
    {"BooleanValue", "IntegerValue", "RealValue", "StringValue", "DataValue", "DateValue"}

Ok == "Ok"

InvalidData == "InvalidData"

UnexpectedEof == "UnexpectedEof"

\* --------------------------------------------------- formatting and parsing

Digits == <<"0", "1", "2", "3", "4", "5", "6", "7", "8", "9">>

IsDigit(c) == \E i \in 1..10 : Digits[i] = c

DigitVal(c) == (CHOOSE i \in 1..10 : Digits[i] = c) - 1

RECURSIVE NatToString(_)
NatToString(n) ==
    IF n < 10 THEN <<Digits[n + 1]>>
    ELSE NatToString(n \div 10) \o <<Digits[(n % 10) + 1]>>

\* i64::to_string
IntToString(i) == IF i < 0 THEN <<"-">> \o NatToString(-i) ELSE NatToString(i)

AllDigits(s) == s # <<>> /\ \A i \in 1..Len(s) : IsDigit(s[i])

RECURSIVE DigitsToNat(_)
DigitsToNat(s) ==
    IF s = <<>> THEN 0 ELSE 10 * DigitsToNat(Front(s)) + DigitVal(Last(s))

\* <i64 as FromStr>::from_str: an optional '-' and at least one digit
\* (the values of the model stay far from the 64-bit range)
ParseInt(s) ==
    IF s # <<>> /\ Head(s) = "-" /\ AllDigits(Tail(s))
    THEN [ok |-> TRUE, val |-> -DigitsToNat(Tail(s))]
    ELSE IF AllDigits(s) THEN [ok |-> TRUE, val |-> DigitsToNat(s)]
    ELSE [ok |-> FALSE, val |-> 0]

RECURSIVE Pow10(_)
Pow10(e) == IF e = 0 THEN 1 ELSE 10 * Pow10(e - 1)

RECURSIVE PadLeft(_, _)
PadLeft(s, width) == IF Len(s) >= width THEN s ELSE PadLeft(<<"0">> \o s, width)

\* f64::to_string of the decimal m / 10^e: the shortest decimal numeral,
\* "1.6" for 16/10 and "2" for 2
RealToString(r) ==
    LET a    == IF r.m < 0 THEN -r.m ELSE r.m
        sign == IF r.m < 0 THEN <<"-">> ELSE <<>>
        ip   == NatToString(a \div Pow10(r.e))
        fp   == PadLeft(NatToString(a % Pow10(r.e)), r.e)
    IN  IF r.e = 0 THEN sign \o ip ELSE sign \o ip \o <<".">> \o fp

RECURSIVE Normalize(_)
Normalize(r) ==
    IF r.e > 0 /\ r.m % 10 = 0 THEN Normalize([m |-> r.m \div 10, e |-> r.e - 1]) ELSE r

DotAt(s) == IF \E i \in 1..Len(s) : s[i] = "." THEN CHOOSE i \in 1..Len(s) : s[i] = "." ELSE 0

\* <f64 as FromStr>::from_str on decimal numerals: [-]digits[.digits]
ParseReal(s) ==
    LET neg  == s # <<>> /\ Head(s) = "-"
        body == IF neg THEN Tail(s) ELSE s
        dot  == DotAt(body)
        ipS  == IF dot = 0 THEN body ELSE SubSeq(body, 1, dot - 1)
        fpS  == IF dot = 0 THEN <<>> ELSE SubSeq(body, dot + 1, Len(body))
        mag  == DigitsToNat(ipS \o fpS)
    IN  IF AllDigits(ipS) /\ (dot = 0 \/ AllDigits(fpS))
        THEN [ok |-> TRUE,
              val |-> Normalize([m |-> IF neg THEN -mag ELSE mag, e |-> Len(fpS)])]
        ELSE [ok |-> FALSE, val |-> NoReal]

Pad(n, width) == PadLeft(NatToString(n), width)

\* DateTime<UTC>::to_rfc3339, as in the writer's test: 1981-05-16T11:32:06+00:00
ToRfc3339(d) ==
    Pad(d.year, 4) \o <<"-">> \o Pad(d.month, 2) \o <<"-">> \o Pad(d.day, 2) \o <<"T">>
        \o Pad(d.hour, 2) \o <<":">> \o Pad(d.minute, 2) \o <<":">> \o Pad(d.second, 2)
        \o <<"+", "0", "0", ":", "0", "0">>

Field(s, from, to) == DigitsToNat(SubSeq(s, from, to))

\* DateTime::parse_from_rfc3339 followed by with_timezone(&UTC), for texts
\* whose offset is Z or +00:00 (the only offsets among the modelled texts)
ParseRfc3339(s) ==
    LET shape ==
            /\ Len(s) \in {20, 25}
            /\ AllDigits(SubSeq(s, 1, 4)) /\ s[5] = "-"
            /\ AllDigits(SubSeq(s, 6, 7)) /\ s[8] = "-"
            /\ AllDigits(SubSeq(s, 9, 10)) /\ s[11] = "T"
            /\ AllDigits(SubSeq(s, 12, 13)) /\ s[14] = ":"
            /\ AllDigits(SubSeq(s, 15, 16)) /\ s[17] = ":"
            /\ AllDigits(SubSeq(s, 18, 19))
            /\ IF Len(s) = 20 THEN s[20] = "Z"
               ELSE SubSeq(s, 20, 25) = <<"+", "0", "0", ":", "0", "0">>
        d == [year |-> Field(s, 1, 4), month |-> Field(s, 6, 7), day |-> Field(s, 9, 10),
              hour |-> Field(s, 12, 13), minute |-> Field(s, 15, 16),
              second |-> Field(s, 18, 19)]
    IN  IF shape /\ d.month \in 1..12 /\ d.day \in 1..31
                 /\ d.hour < 24 /\ d.minute < 60 /\ d.second < 60
        THEN [ok |-> TRUE, val |-> d]
        ELSE [ok |-> FALSE, val |-> NoDate]

\* ------------------------------------------------------------------ base64

B64 ==
    <<"A", "B", "C", "D", "E", "F", "G", "H", "I", "J", "K", "L", "M",
      "N", "O", "P", "Q", "R", "S", "T", "U", "V", "W", "X", "Y", "Z",
      "a", "b", "c", "d", "e", "f", "g", "h", "i", "j", "k", "l", "m",
      "n", "o", "p", "q", "r", "s", "t", "u", "v", "w", "x", "y", "z",
      "0", "1", "2", "3", "4", "5", "6", "7", "8", "9", "+", "/">>

\* the line length of rustc_serialize's MIME configuration
MimeLineLength == 76

B64Char(v) == B64[v + 1]

NewLine(cur) == IF cur >= MimeLineLength THEN <<"\r", "\n">> ELSE <<>>

\* [u8]::to_base64(MIME): groups of three bytes, '=' padding, a CRLF
\* before the group that would pass the line length
RECURSIVE ToBase64From(_, _)
ToBase64From(bs, cur) ==
    IF bs = <<>> THEN <<>>
    ELSE IF Len(bs) = 1 THEN
        NewLine(cur) \o <<B64Char(bs[1] \div 4), B64Char((bs[1] % 4) * 16), "=", "=">>
    ELSE IF Len(bs) = 2 THEN
        NewLine(cur) \o <<B64Char(bs[1] \div 4),
                          B64Char((bs[1] % 4) * 16 + bs[2] \div 16),
                          B64Char((bs[2] % 16) * 4), "=">>
    ELSE
        NewLine(cur) \o <<B64Char(bs[1] \div 4),
                          B64Char((bs[1] % 4) * 16 + bs[2] \div 16),
                          B64Char((bs[2] % 16) * 4 + bs[3] \div 64),
                          B64Char(bs[3] % 64)>>
            \o ToBase64From(SubSeq(bs, 4, Len(bs)),
                            IF cur >= MimeLineLength THEN 4 ELSE cur + 4)

ToBase64(bs) == ToBase64From(bs, 0)

IsB64(c) == \E i \in 1..64 : B64[i] = c

B64Val(c) == (CHOOSE i \in 1..64 : B64[i] = c) - 1

\* str::from_base64: CR and LF are skipped, the scan stops at the first '=',
\* after which only '=' may follow; any other byte outside the alphabet is
\* an error, and so is a last group of one character
FromBase64(s) ==
    LET eqs   == {i \in 1..Len(s) : s[i] = "="}
        stop  == IF eqs = {} THEN Len(s) + 1 ELSE CHOOSE i \in eqs : \A j \in eqs : i <= j
        body  == SelectSeq(SubSeq(s, 1, stop - 1), LAMBDA c : c \notin {"\r", "\n"})
        c     == [i \in 1..Len(body) |-> IF IsB64(body[i]) THEN B64Val(body[i]) ELSE 0]
        n     == 3 * (Len(body) \div 4)
                    + (IF Len(body) % 4 = 0 THEN 0 ELSE (Len(body) % 4) - 1)
        byte(k) ==
            LET g == 4 * ((k - 1) \div 3)
            IN  CASE (k - 1) % 3 = 0 -> c[g + 1] * 4 + c[g + 2] \div 16
                  [] (k - 1) % 3 = 1 -> (c[g + 2] % 16) * 16 + c[g + 3] \div 4
                  [] OTHER -> (c[g + 3] % 4) * 64 + c[g + 4]
    IN  IF /\ \A i \in stop..Len(s) : s[i] = "="
           /\ \A i \in 1..Len(body) : IsB64(body[i])
           /\ Len(body) % 4 # 1
        THEN [ok |-> TRUE, val |-> [k \in 1..n |-> byte(k)]]
        ELSE [ok |-> FALSE, val |-> <<>>]

\* ------------------------------------------------------------- the writer

\* WriteXmlEvent, the calls the writer makes on its xml_writer
XStartElement(name, attributes) ==
    [t |-> "StartElement", name |-> name, attributes |-> attributes, text |-> <<>>]

XEndElement(name) ==
    [t |-> "EndElement", name |-> name, attributes |-> <<>>, text |-> <<>>]

XCharacters(value) ==
    [t |-> "Characters", name |-> "", attributes |-> <<>>, text |-> value]

\* enum Element, enum DictionaryState
ExpectKey == "ExpectKey"

ExpectValue == "ExpectValue"

Dictionary(state) == [el |-> "Dictionary", st |-> state]

Array == [el |-> "Array", st |-> ""]

Root == [el |-> "Root", st |-> ""]

\* A writer value w is [stack, out, result]: the frame stack, the emitter
\* calls made so far and the result of the call in progress.  The emitter
\* keeps no element-name stack (keep_element_names_stack: false), so it
\* accepts every call; I/O errors of the sink are not modelled.

start_element(w, name) == [w EXCEPT !.out = Append(@, XStartElement(name, <<>>))]

end_element(w, name) == [w EXCEPT !.out = Append(@, XEndElement(name))]

write_value(w, value) == [w EXCEPT !.out = Append(@, XCharacters(value))]

\* write_element_and_value without the closing tag
write_element_and_value_unclosed(w, name, value) ==
    write_value(start_element(w, name), value)

write_element_and_value(w, name, value) ==
    end_element(write_value(start_element(w, name), value), name)

\* maybe_end_plist without the pop of Root
maybe_end_plist_keeps_root(w) ==
    IF Len(w.stack) = 1 THEN end_element(w, "plist") ELSE w

maybe_end_plist(w) ==
    IF Len(w.stack) = 1
    THEN LET w1 == end_element(w, "plist")
         IN  [w1 EXCEPT !.stack = Front(@),
                        !.result = IF Last(w1.stack) = Root THEN Ok ELSE InvalidData]
    ELSE w

\* the ExpectKey arm that takes every scalar as a key
write_expect_key_any_scalar(w, event) ==
    IF event.kind \in ScalarKinds
    THEN [write_element_and_value(w, "key", event.text)
             EXCEPT !.stack = Append(@, Dictionary(ExpectValue))]
    ELSE IF event.kind = "EndDictionary"
    THEN maybe_end_plist(end_element(w, "dict"))
    ELSE [w EXCEPT !.result = InvalidData]

\* write, lines 105-119: the arm of a popped Dictionary(ExpectKey) frame;
\* w.stack is the stack after the pop
write_expect_key(w, event) ==
    IF event.kind = "StringValue"
    THEN [write_element_and_value(w, "key", event.text)
             EXCEPT !.stack = Append(@, Dictionary(ExpectValue))]
    ELSE IF event.kind = "EndDictionary"
    THEN maybe_end_plist(end_element(w, "dict"))
    ELSE [w EXCEPT !.result = InvalidData]

VersionAttr == <<"version", "1.0">>

\* the frame arms that push an ExpectValue frame back unchanged
reframe_no_flip(w) ==
    IF w.stack = <<>>
    THEN [w EXCEPT !.out = Append(@, XStartElement("plist", <<VersionAttr>>)),
                   !.stack = <<Root>>]
    ELSE w

\* write, lines 120-135: the other arms of the match on the popped frame
reframe(w) ==
    IF w.stack = <<>>
    THEN [w EXCEPT !.out = Append(@, XStartElement("plist", <<VersionAttr>>)),
                   !.stack = <<Root>>]
    ELSE IF Last(w.stack) = Dictionary(ExpectValue)
    THEN [w EXCEPT !.stack = Append(Front(@), Dictionary(ExpectKey))]
    ELSE w

\* the EndArray arm without the check of the popped frame
end_array_unchecked(w) ==
    [end_element(w, "array") EXCEPT !.stack = Front(@)]

\* write, lines 143-148
end_array(w) ==
    LET w1 == end_element(w, "array")
    IN  [w1 EXCEPT !.stack = Front(@),
                   !.result = IF Last(w1.stack) = Array THEN Ok ELSE InvalidData]

\* the match on the event with a StartArray arm that writes a hint of Some(n)
\* as an attribute of the tag
dispatch_writes_hint(w, event) ==
    CASE event.kind = "StartArray" ->
            [w EXCEPT !.out = Append(@, XStartElement("array",
                                 IF event.hint = <<>> THEN <<>> ELSE <<<<"count", "n">>>>)),
                      !.stack = Append(@, Array)]
      [] event.kind = "EndArray" -> end_array(w)
      [] event.kind = "StartDictionary" ->
            [start_element(w, "dict") EXCEPT !.stack = Append(@, Dictionary(ExpectKey))]
      [] event.kind = "EndDictionary" -> [w EXCEPT !.result = InvalidData]
      [] event.kind = "BooleanValue" ->
            IF event.b THEN end_element(start_element(w, "true"), "true")
            ELSE end_element(start_element(w, "false"), "false")
      [] event.kind = "DataValue" ->
            write_element_and_value(w, "data", ToBase64(event.bytes))
      [] event.kind = "DateValue" ->
            write_element_and_value(w, "date", ToRfc3339(event.date))
      [] event.kind = "IntegerValue" ->
            write_element_and_value(w, "integer", IntToString(event.n))
      [] event.kind = "RealValue" ->
            write_element_and_value(w, "real", RealToString(event.real))
      [] event.kind = "StringValue" ->
            write_element_and_value(w, "string", event.text)

\* write, lines 138-181: the match on the event
dispatch(w, event) ==
    CASE event.kind = "StartArray" ->
            [start_element(w, "array") EXCEPT !.stack = Append(@, Array)]
      [] event.kind = "EndArray" -> end_array(w)
      [] event.kind = "StartDictionary" ->
            [start_element(w, "dict") EXCEPT !.stack = Append(@, Dictionary(ExpectKey))]
      [] event.kind = "EndDictionary" -> [w EXCEPT !.result = InvalidData]
      [] event.kind = "BooleanValue" ->
            IF event.b THEN end_element(start_element(w, "true"), "true")
            ELSE end_element(start_element(w, "false"), "false")
      [] event.kind = "DataValue" ->
            write_element_and_value(w, "data", ToBase64(event.bytes))
      [] event.kind = "DateValue" ->
            write_element_and_value(w, "date", ToRfc3339(event.date))
      [] event.kind = "IntegerValue" ->
            write_element_and_value(w, "integer", IntToString(event.n))
      [] event.kind = "RealValue" ->
            write_element_and_value(w, "real", RealToString(event.real))
      [] event.kind = "StringValue" ->
            write_element_and_value(w, "string", event.text)

\* write that puts the ExpectKey frame back after the dispatch of the value
write_flips_late(w, event) ==
    IF w.stack # <<>> /\ Last(w.stack) = Dictionary(ExpectKey)
    THEN write_expect_key([w EXCEPT !.stack = Front(@)], event)
    ELSE IF w.stack # <<>> /\ Last(w.stack) = Dictionary(ExpectValue)
    THEN LET w1 == dispatch([w EXCEPT !.stack = Front(@)], event)
         IN  IF w1.result = Ok
             THEN maybe_end_plist([w1 EXCEPT !.stack = Append(@, Dictionary(ExpectKey))])
             ELSE w1
    ELSE LET w1 == dispatch(reframe(w), event)
         IN  IF w1.result = Ok THEN maybe_end_plist(w1) ELSE w1

\* write without the call of maybe_end_plist after the dispatch
write_no_completion(w, event) ==
    IF w.stack # <<>> /\ Last(w.stack) = Dictionary(ExpectKey)
    THEN write_expect_key([w EXCEPT !.stack = Front(@)], event)
    ELSE dispatch(reframe(w), event)

\* <EventWriter as PlistEventWriter>::write
write(w, event) ==
    IF w.stack # <<>> /\ Last(w.stack) = Dictionary(ExpectKey)
    THEN write_expect_key([w EXCEPT !.stack = Front(@)], event)
    ELSE LET w1 == dispatch(reframe(w), event)
         IN  IF w1.result = Ok THEN maybe_end_plist(w1) ELSE w1

\* the timestamp of the writer's test
Birthdate ==
    [year |-> 1981, month |-> 5, day |-> 16, hour |-> 11, minute |-> 32, second |-> 6]

\* the events handed to write in Spec
Hints == {<<>>, <<1>>}

Texts == {<<>>, <<"a">>}

WriterEvents ==
    {StartArray(h) : h \in Hints} \cup {EndArray}
        \cup {StartDictionary(h) : h \in Hints} \cup {EndDictionary}
        \cup {BooleanValue(TRUE), IntegerValue(7), RealValue([m |-> 16, e |-> 1])}
        \cup {DataValue(<<0, 190>>), DateValue(Birthdate)}
        \cup {StringValue(s) : s \in Texts}

\* ---------------------------------------------------------------- the wire

\* The bytes the emitter writes, as items: a tag or a run of text.
WOpen(name) == [t |-> "open", name |-> name, text |-> <<>>]

WClose(name) == [t |-> "close", name |-> name, text |-> <<>>]

WText(text) == [t |-> "text", name |-> "", text |-> text]

\* perform_escaping: true
EscapeChar(c) ==
    IF c = "<" THEN <<"&", "l", "t", ";">>
    ELSE IF c = "&" THEN <<"&", "a", "m", "p", ";">>
    ELSE <<c>>

Escape(s) == Concat([i \in 1..Len(s) |-> EscapeChar(s[i])])

\* the tokenizer's resolution of the entity references that Escape writes:
\* the character of a reference at its '&', nothing for the rest of it
Unescape(s) ==
    LET lt(j)  == j + 3 <= Len(s) /\ SubSeq(s, j, j + 3) = <<"&", "l", "t", ";">>
        amp(j) == j + 4 <= Len(s) /\ SubSeq(s, j, j + 4) = <<"&", "a", "m", "p", ";">>
        inside(i) ==
            \/ \E j \in (i - 3)..(i - 1) : j >= 1 /\ lt(j)
            \/ \E j \in (i - 4)..(i - 1) : j >= 1 /\ amp(j)
        at(i) == IF inside(i) THEN <<>>
                 ELSE IF lt(i) THEN <<"<">>
                 ELSE IF amp(i) THEN <<"&">>
                 ELSE <<s[i]>>
    IN  Concat([i \in 1..Len(s) |-> at(i)])

\* line_separator: "\n", indent_string: "    "
Indentation(level) == <<"\n">> \o Concat([i \in 1..level |-> <<" ", " ", " ", " ">>])

\* The emitter of EventWriter::new (perform_indent, normalize_empty_elements,
\* write_document_declaration): the items written for the calls xs[i..].
\* flags is the emitter's indent stack ("nothing" | "markup" | "text"), just
\* says that the last call was a StartElement.
RECURSIVE EmitFrom(_, _, _, _)
EmitFrom(xs, i, flags, just) ==
    IF i > Len(xs) THEN <<>>
    ELSE LET x == xs[i]
             level == Len(flags) - 1
             mark(fl) == Append(Front(fl), "markup")
         IN
         IF x.t = "StartElement" THEN
             (IF Last(flags) # "text" THEN <<WText(Indentation(level))>> ELSE <<>>)
                 \o <<WOpen(x.name)>>
                 \o EmitFrom(xs, i + 1, Append(mark(flags), "markup"), TRUE)
         ELSE IF x.t = "Characters" THEN
             <<WText(Escape(x.text))>>
                 \o EmitFrom(xs, i + 1, Append(Front(flags), "text"), FALSE)
         ELSE
             (IF ~just /\ level > 0 /\ Last(flags) = "markup"
              THEN <<WText(Indentation(level - 1))>> ELSE <<>>)
                 \o <<WClose(x.name)>>
                 \o EmitFrom(xs, i + 1,
                             mark(IF level > 0 THEN Front(flags) ELSE flags), FALSE)

\* the items after the XML declaration, which leaves the flag "markup"
EmitterBytes(xs) == EmitFrom(xs, 1, <<"markup">>, FALSE)

\* XmlEvent, the tokens of the reader's xml_reader
TStartElement(name) == [t |-> "StartElement", name |-> name, text |-> <<>>]

TEndElement(name) == [t |-> "EndElement", name |-> name, text |-> <<>>]

TCharacters(text) == [t |-> "Characters", name |-> "", text |-> text]

TStartDocument == [t |-> "StartDocument", name |-> "", text |-> <<>>]

TProcessingInstruction == [t |-> "ProcessingInstruction", name |-> "", text |-> <<>>]

TEndDocument == [t |-> "EndDocument", name |-> "", text |-> <<>>]

\* The tokenizer of StreamingParser::new on the emitter's bytes
\* (trim_whitespace: false, whitespace_to_characters: true,
\* coalesce_characters: true): text inside the root element becomes one
\* Characters token per run, and an empty run gives no token at all;
\* white space outside the root element gives no token.
RECURSIVE TokenizeFrom(_, _, _, _)
TokenizeFrom(ws, i, depth, run) ==
    LET flush == IF run # <<>> /\ depth > 0 THEN <<TCharacters(Unescape(run))>> ELSE <<>>
    IN  IF i > Len(ws) THEN flush
        ELSE IF ws[i].t = "text" THEN TokenizeFrom(ws, i + 1, depth, run \o ws[i].text)
        ELSE IF ws[i].t = "open"
        THEN flush \o <<TStartElement(ws[i].name)>> \o TokenizeFrom(ws, i + 1, depth + 1, <<>>)
        ELSE flush \o <<TEndElement(ws[i].name)>> \o TokenizeFrom(ws, i + 1, depth - 1, <<>>)

Tokenize(ws) == <<TStartDocument>> \o TokenizeFrom(ws, 1, 0, <<>>)

\* ------------------------------------------------------------- the reader

\* an item of the iterator: Some(Ok(event)), Some(Err(error)), None, or no
\* return from this iteration of the loop ("Continue")
ItemOk(ev) == [tag |-> "Ok", ev |-> ev, err |-> ""]

ItemErr(err) == [tag |-> "Err", ev |-> Ev(""), err |-> err]

ItemNone == [tag |-> "None", ev |-> Ev(""), err |-> ""]

Continue == [tag |-> "Continue", ev |-> Ev(""), err |-> ""]

\* A reader value r is [tokens, pos, element_stack, item].
\* xml_reader.next(): the next token, and EndDocument again and again once
\* the stream is exhausted
PeekToken(r) == IF r.pos < Len(r.tokens) THEN r.tokens[r.pos + 1] ELSE TEndDocument

Advance(r) == [r EXCEPT !.pos = IF r.pos < Len(r.tokens) THEN r.pos + 1 ELSE r.pos]

\* the closures handed to read_content
StringContent(s) == ItemOk(StringValue(s))

DataContent(s) ==
    LET b == FromBase64(s) IN IF b.ok THEN ItemOk(DataValue(b.val)) ELSE ItemErr(InvalidData)

DateContent(s) ==
    LET d == ParseRfc3339(s) IN IF d.ok THEN ItemOk(DateValue(d.val)) ELSE ItemErr(InvalidData)

IntegerContent(s) ==
    LET n == ParseInt(s) IN IF n.ok THEN ItemOk(IntegerValue(n.val)) ELSE ItemErr(InvalidData)

RealContent(s) ==
    LET x == ParseReal(s) IN IF x.ok THEN ItemOk(RealValue(x.val)) ELSE ItemErr(InvalidData)

\* the closure that the arm of element `name` hands to read_content
Content(name, s) ==
    CASE name \in {"key", "string"} -> StringContent(s)
      [] name = "data" -> DataContent(s)
      [] name = "date" -> DateContent(s)
      [] name = "integer" -> IntegerContent(s)
      [] name = "real" -> RealContent(s)

\* read_content that takes a missing text as the empty text
read_content_empty_default(r, name) ==
    LET tok == PeekToken(r)
    IN  [Advance(r) EXCEPT
            !.item = IF tok.t = "Characters" THEN Content(name, tok.text)
                     ELSE Content(name, <<>>)]

\* StreamingParser::read_content, called by the arm of element `name`
read_content(r, name) ==
    LET tok == PeekToken(r)
    IN  [Advance(r) EXCEPT
            !.item = IF tok.t = "Characters" THEN Content(name, tok.text)
                     ELSE ItemErr(InvalidData)]

\* next, lines 45-81: the StartElement arm
on_start_element(r, name) ==
    LET r1 == [r EXCEPT !.element_stack = Append(@, name)]
    IN  CASE name = "plist" -> [r1 EXCEPT !.item = ItemOk(StartPlist)]
          [] name = "array" -> [r1 EXCEPT !.item = ItemOk(StartArray(<<>>))]
          [] name = "dict" -> [r1 EXCEPT !.item = ItemOk(StartDictionary(<<>>))]
          [] name = "key" -> read_content(r1, name)
          [] name = "true" -> [r1 EXCEPT !.item = ItemOk(BooleanValue(TRUE))]
          [] name = "false" -> [r1 EXCEPT !.item = ItemOk(BooleanValue(FALSE))]
          [] name = "data" -> read_content(r1, name)
          [] name = "date" -> read_content(r1, name)
          [] name = "integer" -> read_content(r1, name)
          [] name = "real" -> read_content(r1, name)
          [] name = "string" -> read_content(r1, name)
          [] OTHER -> [r1 EXCEPT !.item = ItemErr(InvalidData)]

\* the EndElement arm with the events of </array> and </dict> exchanged
on_end_element_swapped(r, name) ==
    IF r.element_stack = <<>> THEN [r EXCEPT !.item = ItemErr(InvalidData)]
    ELSE LET r1 == [r EXCEPT !.element_stack = Front(@)]
         IN  IF Last(r.element_stack) # name THEN [r1 EXCEPT !.item = ItemErr(InvalidData)]
             ELSE CASE name = "array" -> [r1 EXCEPT !.item = ItemOk(EndDictionary)]
                    [] name = "dict" -> [r1 EXCEPT !.item = ItemOk(EndArray)]
                    [] name = "plist" -> [r1 EXCEPT !.item = ItemOk(EndPlist)]
                    [] OTHER -> [r1 EXCEPT !.item = Continue]

\* the EndElement arm without the comparison of the names
on_end_element_unchecked(r, name) ==
    [r EXCEPT !.element_stack = IF @ = <<>> THEN @ ELSE Front(@),
              !.item = CASE name = "array" -> ItemOk(EndArray)
                         [] name = "dict" -> ItemOk(EndDictionary)
                         [] name = "plist" -> ItemOk(EndPlist)
                         [] OTHER -> Continue]

\* next, lines 82-96: the EndElement arm
on_end_element(r, name) ==
    IF r.element_stack = <<>> THEN [r EXCEPT !.item = ItemErr(InvalidData)]
    ELSE LET r1 == [r EXCEPT !.element_stack = Front(@)]
         IN  IF Last(r.element_stack) # name THEN [r1 EXCEPT !.item = ItemErr(InvalidData)]
             ELSE CASE name = "array" -> [r1 EXCEPT !.item = ItemOk(EndArray)]
                    [] name = "dict" -> [r1 EXCEPT !.item = ItemOk(EndDictionary)]
                    [] name = "plist" -> [r1 EXCEPT !.item = ItemOk(EndPlist)]
                    [] OTHER -> [r1 EXCEPT !.item = Continue]

\* the EndDocument arm that ends the sequence whatever the stack holds
on_end_document_always_ends(r) == [r EXCEPT !.item = ItemNone]

\* next, lines 97-102: the EndDocument arm
on_end_document(r) ==
    [r EXCEPT !.item = IF r.element_stack = <<>> THEN ItemNone ELSE ItemErr(UnexpectedEof)]

\* one iteration of the loop of StreamingParser::next
next_iteration(r) ==
    LET tok == PeekToken(r)
        r1  == Advance(r)
    IN  CASE tok.t = "StartElement" -> on_start_element(r1, tok.name)
          [] tok.t = "EndElement" -> on_end_element(r1, tok.name)
          [] tok.t = "EndDocument" -> on_end_document(r1)
          [] OTHER -> [r1 EXCEPT !.item = Continue]

\* An iteration of next()'s loop; an iteration that returns ends the call
\* and the consumer's next call starts the loop again.  items records what
\* the calls returned, up to two items more than the stream has tokens.
ReaderStep ==
    /\ phase = "read"
    /\ LET r == next_iteration([tokens |-> tokens, pos |-> pos,
                                element_stack |-> element_stack, item |-> Continue])
       IN  /\ pos' = r.pos
           /\ element_stack' = r.element_stack
           /\ items' = IF r.item # Continue /\ Len(items) < Len(tokens) + 2
                       THEN Append(items, r.item) ELSE items
           /\ rlast' = [tok |-> PeekToken([tokens |-> tokens, pos |-> pos]),
                        before |-> element_stack, item |-> r.item]
    /\ tick' = ~tick
    /\ UNCHANGED <<stack, out, calls, phase, tokens, ser>>

\* the names of the tags of ReaderSpec's streams
StartNames == {"plist", "array", "dict", "string", "bogus"}

EndNames == {"plist", "array", "dict", "string"}

TokenAlphabet ==
    {TStartElement(n) : n \in StartNames} \cup {TEndElement(n) : n \in EndNames}
        \cup {TCharacters(<<"a">>)}

TokenStreams == UNION {[1..n -> TokenAlphabet] : n \in 0..MaxTokens}

\* ------------------------------------------------------------- the bridge

\* A value handed to the Serializer, as the calls its Serialize
\* implementation makes: k is the Serializer method, name the variant name,
\* hint the visitor's len() (<<>> for None, <<n>> for Some(n)), p the
\* primitive payload and items the payload values, the elements or the
\* entries.  "fail" is a Serialize implementation that returns
\* Err(Error::custom(..)) without a call on the Serializer.
Val(k) == [k |-> k, name |-> <<>>, hint |-> <<>>, p |-> Ev(""), items |-> <<>>]

VBool(x) == [Val("bool") EXCEPT !.p.b = x]

VI64(x) == [Val("i64") EXCEPT !.p.n = x]

\* a u64 is held as its eight bytes, the most significant first
VU64(v) == [Val("u64") EXCEPT !.p.bytes = v]

VF64(x) == [Val("f64") EXCEPT !.p.real = x]

VStr(x) == [Val("str") EXCEPT !.p.text = x]

VBytes(x) == [Val("bytes") EXCEPT !.p.bytes = x]

VUnit == Val("unit")

VNone == Val("none")

VSome(x) == [Val("some") EXCEPT !.items = <<x>>]

VSeq(h, xs) == [Val("seq") EXCEPT !.hint = h, !.items = xs]

VEntry(key, value) == [Val("entry") EXCEPT !.items = <<key, value>>]

VMap(h, es) == [Val("map") EXCEPT !.hint = h, !.items = es]

VUnitVariant(variant) == [Val("unit_variant") EXCEPT !.name = variant]

VNewtypeVariant(variant, x) ==
    [Val("newtype_variant") EXCEPT !.name = variant, !.items = <<x>>]

VTupleVariant(variant, xs) ==
    [Val("tuple_variant") EXCEPT !.name = variant, !.hint = <<Len(xs)>>, !.items = xs]

VStructVariant(variant, es) ==
    [Val("struct_variant") EXCEPT !.name = variant, !.hint = <<Len(es)>>, !.items = es]

VNewtypeStruct(x) == [Val("newtype_struct") EXCEPT !.items = <<x>>]

VFail == Val("fail")

Serde == "Serde"

\* A serializer value b is [stack, out, result, calls]: the state of the
\* Writer it owns, the result of the call in progress and the write calls
\* made so far.

\* the record of one call of write: the event, the result, the frame stack
\* before and after and the emitter calls made
CallRecord(before, out0, w, event) ==
    [event |-> event, result |-> w.result, before |-> before, after |-> w.stack,
     emitted |-> SubSeq(w.out, Len(out0) + 1, Len(w.out))]

\* the serializer after a call of write that left the Writer as w
written(b, w, event) ==
    [stack |-> w.stack, out |-> w.out, result |-> w.result,
     calls |-> Append(b.calls, CallRecord(b.stack, b.out, w, event))]

\* Serializer::emit
emit(b, event) ==
    written(b, write([stack |-> b.stack, out |-> b.out, result |-> Ok], event), event)

serialize_bool(b, v) == emit(b, BooleanValue(v))

serialize_i64(b, v) == emit(b, IntegerValue(v))

RECURSIVE Unsigned(_)
\* the number that the bytes bs write in base 256
Unsigned(bs) == IF bs = <<>> THEN 0 ELSE 256 * Unsigned(Front(bs)) + Last(bs)

\* v as i64 for a u64 v: the same 64 bits read as two's complement, so a
\* value with the top bit set is v - 2^64
as_i64(v) ==
    IF v[1] >= 128
    THEN -Unsigned([i \in 1..Len(v) |-> 255 - v[i]]) - 1
    ELSE Unsigned(v)

serialize_u64(b, v) == emit(b, IntegerValue(as_i64(v)))

serialize_f64(b, v) == emit(b, RealValue(v))

serialize_str(b, value) == emit(b, StringValue(value))

serialize_bytes(b, value) == emit(b, DataValue(value))

serialize_unit(b) == emit(b, StringValue(<<>>))

RECURSIVE serialize(_, _)
RECURSIVE single_key_dict(_, _, _)
RECURSIVE visit_seq(_, _, _)
RECURSIVE visit_map(_, _, _)
RECURSIVE serialize_seq(_, _)
RECURSIVE serialize_map(_, _)
RECURSIVE serialize_map_elt(_, _, _)

\* try!(..) followed by a statement: the statement runs only when every
\* result so far is Ok, and the first result that is not Ok is returned
try_emit(b, event) == IF b.result = Ok THEN emit(b, event) ELSE b

try_serialize(b, value) == IF b.result = Ok THEN serialize(b, value) ELSE b

\* single_key_dict without the closing EndDictionary
single_key_dict_unclosed(b, key, value) ==
    try_serialize(try_emit(emit(b, StartDictionary(<<1>>)), StringValue(key)), value)

\* Serializer::single_key_dict; value stands for the closure value_fn, the
\* value whose serialization the closure performs
single_key_dict(b, key, value) ==
    try_emit(try_serialize(try_emit(emit(b, StartDictionary(<<1>>)), StringValue(key)),
                           value),
             EndDictionary)

serialize_none(b) == single_key_dict(b, <<"N", "o", "n", "e">>, VUnit)

serialize_some(b, value) == single_key_dict(b, <<"S", "o", "m", "e">>, value)

serialize_seq_elt(b, value) == serialize(b, value)

\* the loop of serialize_seq over visitor.visit, which calls
\* serialize_seq_elt for the next element and gives None after the last
visit_seq(b, xs, i) ==
    IF i > Len(xs) \/ b.result # Ok THEN b
    ELSE visit_seq(serialize_seq_elt(b, xs[i]), xs, i + 1)

try_visit_seq(b, xs) == IF b.result = Ok THEN visit_seq(b, xs, 1) ELSE b

\* serialize_seq that emits EndArray whatever the elements returned
serialize_seq_always_ends(b, v) ==
    emit(try_visit_seq(emit(b, StartArray(v.hint)), v.items), EndArray)

serialize_seq(b, v) ==
    try_emit(try_visit_seq(emit(b, StartArray(v.hint)), v.items), EndArray)

serialize_map_elt(b, key, value) == try_serialize(serialize(b, key), value)

\* the loop of serialize_map over visitor.visit, which calls
\* serialize_map_elt for the next entry and gives None after the last
visit_map(b, es, i) ==
    IF i > Len(es) \/ b.result # Ok THEN b
    ELSE visit_map(serialize_map_elt(b, es[i].items[1], es[i].items[2]), es, i + 1)

try_visit_map(b, es) == IF b.result = Ok THEN visit_map(b, es, 1) ELSE b

serialize_map(b, v) ==
    try_emit(try_visit_map(emit(b, StartDictionary(v.hint)), v.items), EndDictionary)

serialize_unit_variant(b, variant) == single_key_dict(b, variant, VUnit)

serialize_newtype_struct(b, value) == serialize(b, value)

serialize_newtype_variant(b, variant, value) == single_key_dict(b, variant, value)

\* the closure calls serialize_tuple_struct, which serde's default methods
\* hand on to serialize_seq with the same visitor
serialize_tuple_variant(b, variant, v) ==
    single_key_dict(b, variant, [v EXCEPT !.k = "seq"])

\* the closure calls serialize_struct, which serde's default methods hand
\* on to serialize_map with the same visitor
serialize_struct_variant(b, variant, v) ==
    single_key_dict(b, variant, [v EXCEPT !.k = "map"])

\* value.serialize(serializer): the Serializer method that the value's
\* Serialize implementation calls
serialize(b, value) ==
    CASE value.k = "bool" -> serialize_bool(b, value.p.b)
      [] value.k = "i64" -> serialize_i64(b, value.p.n)
      [] value.k = "u64" -> serialize_u64(b, value.p.bytes)
      [] value.k = "f64" -> serialize_f64(b, value.p.real)
      [] value.k = "str" -> serialize_str(b, value.p.text)
      [] value.k = "bytes" -> serialize_bytes(b, value.p.bytes)
      [] value.k = "unit" -> serialize_unit(b)
      [] value.k = "none" -> serialize_none(b)
      [] value.k = "some" -> serialize_some(b, value.items[1])
      [] value.k = "seq" -> serialize_seq(b, value)
      [] value.k = "map" -> serialize_map(b, value)
      [] value.k = "unit_variant" -> serialize_unit_variant(b, value.name)
      [] value.k = "newtype_struct" -> serialize_newtype_struct(b, value.items[1])
      [] value.k = "newtype_variant" ->
            serialize_newtype_variant(b, value.name, value.items[1])
      [] value.k = "tuple_variant" -> serialize_tuple_variant(b, value.name, value)
      [] value.k = "struct_variant" -> serialize_struct_variant(b, value.name, value)
      [] value.k = "fail" -> [b EXCEPT !.result = Serde]

\* the values handed to the Serializer in BridgeSpec
KeyK == <<"k">>

KeyJ == <<"j">>

VariantA == <<"A">>

BridgeScalars == {VI64(5), VStr(<<"a">>), VBool(TRUE), VUnit}

BridgeOptions == {VNone, VSome(VI64(5)), VSome(VNone), VSome(VMap(<<>>, <<VEntry(VI64(3), VI64(1))>>))}

BridgeVariants ==
    {VUnitVariant(VariantA), VNewtypeVariant(VariantA, VI64(5)),
     VNewtypeVariant(VariantA, VFail),
     VTupleVariant(VariantA, <<VI64(1), VStr(<<"a">>)>>),
     VStructVariant(VariantA, <<VEntry(VStr(KeyK), VBool(TRUE))>>)}

BridgeSeqs ==
    {VSeq(<<>>, <<>>), VSeq(<<2>>, <<VI64(1), VI64(2)>>),
     VSeq(<<3>>, <<VI64(1), VFail, VI64(2)>>),
     VSeq(<<2>>, <<VSeq(<<1>>, <<VFail>>), VI64(1)>>),
     VNewtypeStruct(VSeq(<<1>>, <<VNone>>))}

BridgeMaps ==
    {VMap(<<1>>, <<VEntry(VStr(KeyK), VI64(1))>>),
     VMap(<<2>>, <<VEntry(VStr(KeyK), VI64(1)), VEntry(VStr(KeyJ), VSeq(<<1>>, <<VI64(2)>>))>>),
     VMap(<<2>>, <<VEntry(VI64(3), VI64(1)), VEntry(VStr(KeyK), VI64(2))>>),
     VMap(<<>>, <<VEntry(VStr(KeyK), VFail), VEntry(VStr(KeyJ), VI64(1))>>)}

BridgeValues ==
    BridgeScalars \cup BridgeOptions \cup BridgeVariants \cup BridgeSeqs \cup BridgeMaps

\* ------------------------------------------------------ the specifications

\* one call of write on the Writer instance
Write(event) ==
    /\ phase = "write"
    /\ LET w == write([stack |-> stack, out |-> out, result |-> Ok], event)
       IN  /\ stack' = w.stack
           /\ out' = w.out
           /\ calls' = Append(calls,
                  [event |-> event, result |-> w.result, before |-> stack,
                   after |-> w.stack, emitted |-> SubSeq(w.out, Len(out) + 1, Len(w.out))])
    /\ UNCHANGED <<phase, tokens, pos, element_stack, items, rlast, tick, ser>>

NoStep == [tok |-> [t |-> "", name |-> "", text |-> <<>>], before |-> <<>>, item |-> Continue]

\* EventWriter::new, and a reader that is not in use
Init ==
    /\ stack = <<>>
    /\ out = <<>>
    /\ calls = <<>>
    /\ phase = "write"
    /\ tokens = <<>>
    /\ pos = 0
    /\ element_stack = <<>>
    /\ items = <<>>
    /\ rlast = NoStep
    /\ tick = FALSE
    /\ ser = <<>>

Next == \E event \in WriterEvents : Len(calls) < MaxWrites /\ Write(event)

Spec == Init /\ [][Next]_vars

\* StreamingParser::new on an arbitrary token stream
ReaderInit ==
    /\ stack = <<>>
    /\ out = <<>>
    /\ calls = <<>>
    /\ phase = "read"
    /\ tokens \in TokenStreams
    /\ pos = 0
    /\ element_stack = <<>>
    /\ items = <<>>
    /\ rlast = NoStep
    /\ tick = FALSE
    /\ ser = <<>>

ReaderNext == ReaderStep

ReaderSpec == ReaderInit /\ [][ReaderNext]_vars

\* the consumer keeps calling next(), and every call runs
ReaderLiveSpec == ReaderSpec /\ WF_vars(ReaderStep)

\* the events of NestSpec: the containers, a key and a value
NestEvents ==
    {StartArray(<<>>), EndArray, StartDictionary(<<>>), EndDictionary,
     StringValue(<<"a">>), IntegerValue(7)}

NestNext == \E event \in NestEvents : Len(calls) < MaxNestWrites /\ Write(event)

\* longer sequences of write calls on one Writer instance
NestSpec == Init /\ [][NestNext]_vars

\* the tokens of LeafSpec: the opening tag of every leaf element and of a
\* container, two closing tags, and texts that some of the leaves decode
LeafTexts == {<<"7">>, <<"a">>, <<"1", ".", "6">>, <<"A", "L", "4", "=">>, ToRfc3339(Birthdate)}

LeafTokens ==
    {TStartElement(n) : n \in {"key", "string", "integer", "real", "data", "date"}}
        \cup {TStartElement(n) : n \in {"true", "false", "array"}}
        \cup {TEndElement(n) : n \in {"string", "true"}}
        \cup {TCharacters(s) : s \in LeafTexts}

LeafStreams == UNION {[1..n -> LeafTokens] : n \in 0..MaxLeafTokens}

\* StreamingParser::new on a short stream of leaf elements
LeafInit ==
    /\ stack = <<>>
    /\ out = <<>>
    /\ calls = <<>>
    /\ phase = "read"
    /\ tokens \in LeafStreams
    /\ pos = 0
    /\ element_stack = <<>>
    /\ items = <<>>
    /\ rlast = NoStep
    /\ tick = FALSE
    /\ ser = <<>>

LeafSpec == LeafInit /\ [][ReaderNext]_vars

\* the events and the tokens of HintSpec: the containers with and without
\* a hint, a key and a value
HintEvents ==
    {StartArray(h) : h \in Hints} \cup {EndArray}
        \cup {StartDictionary(h) : h \in Hints} \cup {EndDictionary}
        \cup {StringValue(<<"a">>), BooleanValue(TRUE)}

HintTokens ==
    {TStartElement(n) : n \in {"plist", "array", "dict", "true"}}
        \cup {TEndElement(n) : n \in {"array", "dict"}}

HintStreams == UNION {[1..n -> HintTokens] : n \in 0..MaxTokens}

\* either half of the codec at work: a fresh Writer that is handed events,
\* or a StreamingParser on a token stream
HintInit ==
    /\ stack = <<>>
    /\ out = <<>>
    /\ calls = <<>>
    /\ \/ phase = "write" /\ tokens = <<>>
       \/ phase = "read" /\ tokens \in HintStreams
    /\ pos = 0
    /\ element_stack = <<>>
    /\ items = <<>>
    /\ rlast = NoStep
    /\ tick = FALSE
    /\ ser = <<>>

HintNext ==
    \/ \E event \in HintEvents : Len(calls) < MaxWrites /\ Write(event)
    \/ ReaderStep

HintSpec == HintInit /\ [][HintNext]_vars

\* the state after a call of value.serialize that left the Serializer as b
Serialized(b, value) ==
    /\ stack' = b.stack
    /\ out' = b.out
    /\ calls' = b.calls
    /\ ser' = Append(ser, [value |-> value, result |-> b.result,
                           from |-> Len(calls), to |-> Len(b.calls),
                           before |-> stack])

\* one call of value.serialize on the Serializer that owns the Writer
Serialize(value) ==
    /\ phase = "write"
    /\ Serialized(serialize([stack |-> stack, out |-> out, result |-> Ok,
                             calls |-> calls], value), value)
    /\ UNCHANGED <<phase, tokens, pos, element_stack, items, rlast, tick>>

BridgeNext == \E value \in BridgeValues : Len(ser) < MaxSerializes /\ Serialize(value)

\* Serializer::new on a fresh Writer, and the values serialized with it
BridgeSpec == Init /\ [][BridgeNext]_vars

\* the integers handed to the Serializer in IntegerSpec: i64 values, u64
\* values below 2^63 and u64 values from 2^63 up.  The u64 values are
\* 0, 5, 2^31 - 1, 2^64 - 2^31 + 1, 2^64 - 2 and u64::MAX.
IntegerValues ==
    {VI64(0), VI64(5), VI64(-1), VI64(-7), VI64(2147483647)}
        \cup {VU64(<<0, 0, 0, 0, 0, 0, 0, 0>>), VU64(<<0, 0, 0, 0, 0, 0, 0, 5>>),
              VU64(<<0, 0, 0, 0, 127, 255, 255, 255>>),
              VU64(<<255, 255, 255, 255, 128, 0, 0, 1>>),
              VU64(<<255, 255, 255, 255, 255, 255, 255, 254>>),
              VU64(<<255, 255, 255, 255, 255, 255, 255, 255>>)}

IntegerNext == \E value \in IntegerValues : Len(ser) < MaxSerializes /\ Serialize(value)

\* Serializer::new on a fresh Writer, and the integers serialized with it
IntegerSpec == Init /\ [][IntegerNext]_vars

\* the events handed to write in RoundTripSpec
DocTexts == {<<>>, <<"a">>, <<"<", "&", " ">>}

LongBytes == [i \in 1..58 |-> 0]

DocScalars ==
    {BooleanValue(TRUE), BooleanValue(FALSE), IntegerValue(-12), IntegerValue(1564)}
        \cup {RealValue([m |-> 16, e |-> 1]), DateValue(Birthdate)}
        \cup {StringValue(s) : s \in DocTexts}
        \cup {DataValue(bs) : bs \in {<<>>, <<0, 190>>, LongBytes}}

DocEvents ==
    DocScalars \cup {StartArray(h) : h \in Hints} \cup {EndArray}
        \cup {StartDictionary(h) : h \in Hints} \cup {EndDictionary}

\* a write call of a sequence that the Writer accepts, one document long
WriteDoc(event) ==
    /\ Len(calls) < MaxDocEvents
    /\ calls = <<>> \/ stack # <<>>
    /\ Write(event)
    /\ calls'[Len(calls')].result = Ok

\* the finished document goes through the emitter to the bytes of the
\* sink, and a StreamingParser is made on those bytes
Transport ==
    /\ phase = "write"
    /\ calls # <<>> /\ stack = <<>>
    /\ phase' = "read"
    /\ tokens' = Tokenize(EmitterBytes(out))
    /\ UNCHANGED <<stack, out, calls, pos, element_stack, items, rlast, tick, ser>>

RoundTripNext ==
    \/ \E event \in DocEvents : WriteDoc(event)
    \/ Transport
    \/ ReaderStep

RoundTripSpec == Init /\ [][RoundTripNext]_vars

\* the events of MappingSpec: the containers and one scalar of each kind
MapEvents ==
    {StartArray(<<>>), EndArray, StartDictionary(<<>>), EndDictionary}
        \cup {BooleanValue(TRUE), BooleanValue(FALSE), IntegerValue(-12)}
        \cup {RealValue([m |-> 16, e |-> 1]), DateValue(Birthdate)}
        \cup {StringValue(<<"a">>), DataValue(<<0, 190>>)}

\* a write call of a short sequence that the Writer accepts
WriteMapped(event) ==
    /\ Len(calls) < MaxMapEvents
    /\ calls = <<>> \/ stack # <<>>
    /\ Write(event)
    /\ calls'[Len(calls')].result = Ok

MappingNext ==
    \/ \E event \in MapEvents : WriteMapped(event)
    \/ Transport
    \/ ReaderStep

\* short documents of every kind of element, written, and the
\* StreamingParser on the tokens of the written bytes
MappingSpec == Init /\ [][MappingNext]_vars

\* ----------------------------------------------------- the writer's claims

TopIs(frames, frame) == frames # <<>> /\ Last(frames) = frame

PlistOpens == Cardinality({i \in 1..Len(out) : out[i] = XStartElement("plist", <<VersionAttr>>)})

PlistCloses == Cardinality({i \in 1..Len(out) : out[i] = XEndElement("plist")})

Element(name, value) == <<XStartElement(name, <<>>), XCharacters(value), XEndElement(name)>>

\* C1: a write call that returns InvalidData has emitted no XML token.
C1_InvalidDataEmitsNothing ==
    \A i \in 1..Len(calls) : calls[i].result = InvalidData => calls[i].emitted = <<>>

StringAfterKey(i) ==
    /\ i >= 2
    /\ TopIs(calls[i - 1].before, Dictionary(ExpectKey))
    /\ calls[i - 1].event.kind = "StringValue"
    /\ calls[i].event.kind = "StringValue"

\* C3 as stated: inside an open dictionary, a second key event written
\* directly after a key event makes write return InvalidData.
C3_SecondKeyRejected ==
    \A i \in 1..Len(calls) : StringAfterKey(i) => calls[i].result = InvalidData

\* C3 as amended: a String written directly after a key is taken as that
\* key's value: write returns Ok, emits a <string> element and the
\* dictionary frame is back in ExpectKey.
C3_StringAfterKeyIsValue ==
    \A i \in 1..Len(calls) :
        StringAfterKey(i) =>
            /\ calls[i].result = Ok
            /\ calls[i].emitted = Element("string", calls[i].event.text)
            /\ calls[i].after = Append(Front(calls[i].before), Dictionary(ExpectKey))

C3_Witness == \E i \in 1..Len(calls) : StringAfterKey(i) /\ calls[i].result = Ok

\* C4: with Dictionary(ExpectKey) on top, a String is emitted as a <key>
\* element and moves the frame to ExpectValue, EndDictionary closes the
\* <dict> element and pops the frame, and every other event returns
\* InvalidData.
C4_ExpectKeyArm ==
    \A i \in 1..Len(calls) :
        LET c == calls[i] IN
        TopIs(c.before, Dictionary(ExpectKey)) =>
            IF c.event.kind = "StringValue" THEN
                /\ c.result = Ok
                /\ c.emitted = Element("key", c.event.text)
                /\ c.after = Append(Front(c.before), Dictionary(ExpectValue))
            ELSE IF c.event.kind = "EndDictionary" THEN
                /\ c.result = Ok
                /\ c.emitted # <<>> /\ Head(c.emitted) = XEndElement("dict")
                /\ IsPrefix(c.after, Front(c.before))
            ELSE c.result = InvalidData /\ c.emitted = <<>>

\* a key has been accepted and, later, a value with no key rejected
C4_Witness ==
    \E i, j \in 1..Len(calls) :
        /\ i < j
        /\ TopIs(calls[i].before, Dictionary(ExpectKey))
        /\ calls[i].event.kind = "StringValue" /\ calls[i].result = Ok
        /\ TopIs(calls[j].before, Dictionary(ExpectKey))
        /\ calls[j].event.kind \in {"IntegerValue", "StartArray", "EndArray"}
        /\ calls[j].result = InvalidData

\* the scan of an event sequence with a stack of the open container kinds
RECURSIVE NestsFrom(_, _, _)
NestsFrom(evs, i, open) ==
    IF i > Len(evs) THEN TRUE
    ELSE LET k == evs[i].kind IN
         IF k \in {"StartArray", "StartDictionary", "StartPlist"}
         THEN NestsFrom(evs, i + 1, Append(open, k))
         ELSE IF k = "EndArray"
         THEN TopIs(open, "StartArray") /\ NestsFrom(evs, i + 1, Front(open))
         ELSE IF k = "EndDictionary"
         THEN TopIs(open, "StartDictionary") /\ NestsFrom(evs, i + 1, Front(open))
         ELSE IF k = "EndPlist"
         THEN TopIs(open, "StartPlist") /\ NestsFrom(evs, i + 1, Front(open))
         ELSE NestsFrom(evs, i + 1, open)

NestsLikeStack(evs) == NestsFrom(evs, 1, <<>>)

WrittenEvents == [i \in 1..Len(calls) |-> calls[i].event]

AllOk == \A i \in 1..Len(calls) : calls[i].result = Ok

\* C5: EndArray returns Ok exactly when the top frame is Array and
\* EndDictionary exactly when it is Dictionary(ExpectKey); so the events of a
\* sequence whose writes all return Ok nest like a stack.
C5_EndNeedsItsFrame ==
    /\ \A i \in 1..Len(calls) :
          LET c == calls[i] IN
          /\ c.event.kind = "EndArray" => (c.result = Ok <=> TopIs(c.before, Array))
          /\ c.event.kind = "EndDictionary" =>
                (c.result = Ok <=> TopIs(c.before, Dictionary(ExpectKey)))
    /\ AllOk => NestsLikeStack(WrittenEvents)

\* a dictionary inside an array, both closed, and every write Ok
C5_Witness ==
    /\ AllOk
    /\ \E i, j \in 1..Len(calls) :
          /\ i < j
          /\ calls[i].event.kind = "EndDictionary"
          /\ calls[j].event.kind = "EndArray"

\* ----------------------------------------------------- the reader's claims

IsErr(item) == item.tag = "Err"

ErrorFree(its) == \A i \in 1..Len(its) : ~IsErr(its[i])

\* the items before the first error item
RECURSIVE BeforeFirstError(_)
BeforeFirstError(its) ==
    IF its = <<>> \/ IsErr(Head(its)) THEN <<>>
    ELSE <<Head(its)>> \o BeforeFirstError(Tail(its))

OkEvents(its) ==
    LET oks == SelectSeq(its, LAMBDA it : it.tag = "Ok") IN [i \in 1..Len(oks) |-> oks[i].ev]

\* C6: an end tag pops the name stack and gives InvalidData when the stack
\* was empty or the popped name is not the tag's name; so in the events
\* before the first error every End event closes the most recent open
\* Start event of its kind.
C6_EndTagsMatch ==
    /\ rlast.tok.t = "EndElement" =>
          /\ element_stack = IF rlast.before = <<>> THEN <<>> ELSE Front(rlast.before)
          /\ (rlast.before = <<>> \/ Last(rlast.before) # rlast.tok.name)
                => rlast.item = ItemErr(InvalidData)
    /\ NestsLikeStack(OkEvents(BeforeFirstError(items)))

\* a document with a container read to its EndPlist without an error
C6_Witness ==
    /\ ErrorFree(items)
    /\ rlast.item = ItemOk(EndPlist)
    /\ \E i \in 1..Len(items) : items[i].ev.kind \in {"EndArray", "EndDictionary"}

\* C7: the consumer that keeps calling next() receives None in the end, and
\* every call returns.
C7_SequenceEnds ==
    /\ <>(\E i \in 1..Len(items) : items[i] = ItemNone)
    /\ []<>(rlast.item # Continue)

CountOf(kind) == Cardinality({i \in 1..Len(tokens) : tokens[i].t = kind})

\* C8: at the end of the input the reader gives UnexpectedEof when its name
\* stack is not empty and None when it is; after an error-free run that is
\* UnexpectedEof exactly when a start tag was left unclosed.
C8_EndOfInput ==
    rlast.tok = TEndDocument =>
        /\ rlast.before # <<>> => rlast.item = ItemErr(UnexpectedEof)
        /\ rlast.before = <<>> => rlast.item = ItemNone
        /\ ErrorFree(Front(items)) =>
              (rlast.item = ItemNone <=> CountOf("StartElement") = CountOf("EndElement"))

\* a stream that ends inside two open elements
C8_Witness ==
    /\ rlast.tok = TEndDocument
    /\ rlast.item = ItemErr(UnexpectedEof)
    /\ Len(element_stack) >= 2
    /\ Len(items) = 3 /\ ErrorFree(Front(items))

\* ------------------------------------------------------ the round trip

\* value := scalar | StartArray value* EndArray
\*        | StartDictionary (String value)* EndDictionary;
\* each operator gives the index after what it recognizes at i, or 0
RECURSIVE ValueEnd(_, _), ArrayEnd(_, _), DictionaryEnd(_, _)
ValueEnd(evs, i) ==
    IF i > Len(evs) THEN 0
    ELSE IF evs[i].kind \in ScalarKinds THEN i + 1
    ELSE IF evs[i].kind = "StartArray" THEN ArrayEnd(evs, i + 1)
    ELSE IF evs[i].kind = "StartDictionary" THEN DictionaryEnd(evs, i + 1)
    ELSE 0

ArrayEnd(evs, i) ==
    IF i > Len(evs) THEN 0
    ELSE IF evs[i].kind = "EndArray" THEN i + 1
    ELSE LET j == ValueEnd(evs, i) IN IF j = 0 THEN 0 ELSE ArrayEnd(evs, j)

DictionaryEnd(evs, i) ==
    IF i > Len(evs) THEN 0
    ELSE IF evs[i].kind = "EndDictionary" THEN i + 1
    ELSE IF evs[i].kind = "StringValue"
    THEN LET j == ValueEnd(evs, i + 1) IN IF j = 0 THEN 0 ELSE DictionaryEnd(evs, j)
    ELSE 0

\* one top-level value, balanced containers, alternating dictionaries
WellFormed(evs) == ValueEnd(evs, 1) = Len(evs) + 1

WithoutHint(ev) == [ev EXCEPT !.hint = <<>>]

\* what the reader is to give for the written events
ExpectedItems(evs) ==
    <<ItemOk(StartPlist)>> \o [i \in 1..Len(evs) |-> ItemOk(WithoutHint(evs[i]))]
        \o <<ItemOk(EndPlist), ItemNone>>

\* the items up to the first None
RECURSIVE UpToNone(_)
UpToNone(its) ==
    IF its = <<>> THEN <<>>
    ELSE IF Head(its) = ItemNone THEN <<ItemNone>>
    ELSE <<Head(its)>> \o UpToNone(Tail(its))

ReadBack(evs) ==
    /\ IsPrefix(UpToNone(items), ExpectedItems(evs))
    /\ rlast.tok = TEndDocument => UpToNone(items) = ExpectedItems(evs)

\* C9: a well-formed event sequence, written and read back, gives
\* StartPlist, the same events with the same values (hints read back as
\* None), EndPlist, and no error.
C9_RoundTrip ==
    (phase = "read" /\ WellFormed(WrittenEvents)) => ReadBack(WrittenEvents)

\* the element that the wire grammar gives a scalar event
ScalarTag(ev) ==
    CASE ev.kind = "BooleanValue" -> IF ev.b THEN "true" ELSE "false"
      [] ev.kind = "IntegerValue" -> "integer"
      [] ev.kind = "RealValue" -> "real"
      [] ev.kind = "StringValue" -> "string"
      [] ev.kind = "DataValue" -> "data"
      [] ev.kind = "DateValue" -> "date"

\* C10: one write of a bare scalar on a fresh Writer returns Ok, emits
\* <plist>, one scalar element and </plist> in that call and leaves the
\* stack empty; read back, the output gives StartPlist, the scalar, EndPlist.
C10_BareScalar ==
    (Len(calls) = 1 /\ calls[1].event.kind \in ScalarKinds) =>
        LET c == calls[1]
            inner == SubSeq(c.emitted, 2, Len(c.emitted) - 1)
        IN  /\ c.result = Ok
            /\ c.after = <<>>
            /\ Len(c.emitted) >= 4
            /\ Head(c.emitted) = XStartElement("plist", <<VersionAttr>>)
            /\ Last(c.emitted) = XEndElement("plist")
            /\ Head(inner) = XStartElement(ScalarTag(c.event), <<>>)
            /\ Last(inner) = XEndElement(ScalarTag(c.event))
            /\ Cardinality({i \in 1..Len(inner) : inner[i].t = "StartElement"}) = 1
            /\ phase = "read" => ReadBack(WrittenEvents)

\* ----------------------------------------------------- the bridge's claims

\* The events that a value stands for, its elements, entries and payloads
\* taken in order up to the first one that fails; a container that holds a
\* failure is left without its End event.
RECURSIVE Flat(_), FlatAll(_, _)
FlatAll(xs, i) ==
    IF i > Len(xs) THEN [evs |-> <<>>, failed |-> FALSE]
    ELSE LET f == Flat(xs[i])
         IN  IF f.failed THEN f
             ELSE LET g == FlatAll(xs, i + 1)
                  IN  [evs |-> f.evs \o g.evs, failed |-> g.failed]

Between(open, f, close) ==
    [evs |-> open \o f.evs \o (IF f.failed THEN <<>> ELSE close), failed |-> f.failed]

One(ev) == [evs |-> <<ev>>, failed |-> FALSE]

Keyed(key, f) ==
    Between(<<StartDictionary(<<1>>), StringValue(key)>>, f, <<EndDictionary>>)

Flat(v) ==
    CASE v.k = "bool" -> One(BooleanValue(v.p.b))
      [] v.k = "i64" -> One(IntegerValue(v.p.n))
      [] v.k = "f64" -> One(RealValue(v.p.real))
      [] v.k = "str" -> One(StringValue(v.p.text))
      [] v.k = "bytes" -> One(DataValue(v.p.bytes))
      [] v.k = "unit" -> One(StringValue(<<>>))
      [] v.k = "fail" -> [evs |-> <<>>, failed |-> TRUE]
      [] v.k \in {"entry", "newtype_struct"} -> FlatAll(v.items, 1)
      [] v.k = "seq" ->
            Between(<<StartArray(v.hint)>>, FlatAll(v.items, 1), <<EndArray>>)
      [] v.k = "map" ->
            Between(<<StartDictionary(v.hint)>>, FlatAll(v.items, 1), <<EndDictionary>>)
      [] v.k = "none" -> Keyed(<<"N", "o", "n", "e">>, One(StringValue(<<>>)))
      [] v.k = "some" -> Keyed(<<"S", "o", "m", "e">>, Flat(v.items[1]))
      [] v.k = "unit_variant" -> Keyed(v.name, One(StringValue(<<>>)))
      [] v.k = "newtype_variant" -> Keyed(v.name, Flat(v.items[1]))
      [] v.k = "tuple_variant" -> Keyed(v.name, Flat([v EXCEPT !.k = "seq"]))
      [] v.k = "struct_variant" -> Keyed(v.name, Flat([v EXCEPT !.k = "map"]))

WithoutHints(evs) == [i \in 1..Len(evs) |-> WithoutHint(evs[i])]

\* the events that serialize call s handed to write, and their results
SerEvents(s) == [i \in 1..(s.to - s.from) |-> calls[s.from + i].event]

SerResults(s) == [i \in 1..(s.to - s.from) |-> calls[s.from + i].result]

SerAllOk(s) == s.result = Ok /\ \A i \in 1..(s.to - s.from) : SerResults(s)[i] = Ok

\* the call began where the Writer takes a value
InValuePosition(s) == ~TopIs(s.before, Dictionary(ExpectKey))

\* a payload that holds no failure and whose events are one well-formed value
Sound(v) == ~Flat(v).failed /\ WellFormed(Flat(v).evs)

SingleKey(key, payload) ==
    <<StartDictionary(<<>>), StringValue(key)>> \o WithoutHints(payload) \o <<EndDictionary>>

\* C11: an absent optional is serialized as StartDictionary, String("None"),
\* String(""), EndDictionary; a present one as StartDictionary,
\* String("Some"), the payload's events, EndDictionary (Integer(5) for the
\* payload 5); a variant as StartDictionary, String(variant name), payload,
\* EndDictionary, the payload being String("") for a unit variant, the inner
\* value's events for a one-payload variant and an array or a dictionary for
\* a variant of several fields; and the Writer accepts each sequence.
C11_SingleKeyDictionary ==
    \A j \in 1..Len(ser) :
        LET s == ser[j]
            v == s.value
            is(key, payload) ==
                WithoutHints(SerEvents(s)) = SingleKey(key, payload) /\ SerAllOk(s)
        IN  InValuePosition(s) =>
            /\ v.k = "none" => is(<<"N", "o", "n", "e">>, <<StringValue(<<>>)>>)
            /\ (v.k = "some" /\ Sound(v.items[1]))
                  => is(<<"S", "o", "m", "e">>, Flat(v.items[1]).evs)
            /\ v = VSome(VI64(5)) => is(<<"S", "o", "m", "e">>, <<IntegerValue(5)>>)
            /\ v.k = "unit_variant" => is(v.name, <<StringValue(<<>>)>>)
            /\ (v.k = "newtype_variant" /\ Sound(v.items[1]))
                  => is(v.name, Flat(v.items[1]).evs)
            /\ (v.k = "tuple_variant" /\ Sound(VSeq(<<>>, v.items)))
                  => /\ is(v.name, Flat(VSeq(<<>>, v.items)).evs)
                     /\ SerEvents(s)[3].kind = "StartArray"
            /\ (v.k = "struct_variant" /\ Sound(VMap(<<>>, v.items)))
                  => /\ is(v.name, Flat(VMap(<<>>, v.items)).evs)
                     /\ SerEvents(s)[3].kind = "StartDictionary"

\* Some(5) and then a variant of named fields have been serialized
C11_Witness ==
    /\ Len(ser) = 2
    /\ ser[1].value = VSome(VI64(5)) /\ SerAllOk(ser[1])
    /\ ser[2].value.k = "struct_variant" /\ SerAllOk(ser[2])
    /\ Len(calls) = 11
    /\ stack = <<>>

\* C19: a sequence is serialized as StartArray(hint), the events of each
\* element in iteration order, EndArray, and a mapping as
\* StartDictionary(hint), for each entry in iteration order the key's events
\* then the value's, EndDictionary; the first error of an element, key, value
\* or write ends the serialization: nothing is visited after it and no
\* closing End event is emitted.
C19_SequencesAndMappings ==
    \A j \in 1..Len(ser) :
        LET s == ser[j]
            f == Flat(s.value)
            evs == SerEvents(s)
            rs == SerResults(s)
        IN  s.value.k \in {"seq", "map"} =>
            /\ IsPrefix(evs, f.evs)
            /\ \A i \in 1..(Len(rs) - 1) : rs[i] = Ok
            /\ s.result = Ok => (evs = f.evs /\ ~f.failed /\ Last(rs) = Ok)
            /\ s.result # Ok =>
                  /\ \/ Last(rs) = s.result
                     \/ f.failed /\ evs = f.evs /\ s.result = Serde /\ Last(rs) = Ok
                  /\ ValueEnd(evs, 1) = 0
            /\ (~f.failed /\ \A i \in 1..Len(rs) : rs[i] = Ok) => s.result = Ok

\* a sequence left at its failing second element, then a mapping of two
\* entries serialized to its end
C19_Witness ==
    /\ Len(ser) = 2
    /\ ser[1].value = VSeq(<<3>>, <<VI64(1), VFail, VI64(2)>>)
    /\ ser[1].result = Serde
    /\ SerEvents(ser[1]) = <<StartArray(<<3>>), IntegerValue(1)>>
    /\ ser[2].value.k = "map" /\ Len(ser[2].value.items) = 2
    /\ ser[2].result = Ok

\* ------------------------------------------- the shape of the reader's events

\* The scan of an event sequence with a stack of the open containers: "P" a
\* document, "A" an array, "K" a dictionary that expects a key, "V" a
\* dictionary that expects a value.  It fails where a dictionary gets
\* anything but a String or its End for a key, or no value after a key.
RECURSIVE AlternatesFrom(_, _, _)
AlternatesFrom(evs, i, open) ==
    IF i > Len(evs) THEN TRUE
    ELSE LET k == evs[i].kind
             pushed == CASE k = "StartArray" -> <<"A">>
                         [] k = "StartDictionary" -> <<"K">>
                         [] k = "StartPlist" -> <<"P">>
                         [] OTHER -> <<>>
         IN  IF TopIs(open, "K") THEN
                 IF k = "StringValue" THEN AlternatesFrom(evs, i + 1, Append(Front(open), "V"))
                 ELSE IF k = "EndDictionary" THEN AlternatesFrom(evs, i + 1, Front(open))
                 ELSE FALSE
             ELSE IF TopIs(open, "V") THEN
                 /\ k \in ScalarKinds \cup {"StartArray", "StartDictionary"}
                 /\ AlternatesFrom(evs, i + 1, Append(Front(open), "K") \o pushed)
             ELSE IF k \in {"EndArray", "EndDictionary", "EndPlist"}
             THEN AlternatesFrom(evs, i + 1, IF open = <<>> THEN open ELSE Front(open))
             ELSE AlternatesFrom(evs, i + 1, open \o pushed)

Alternates(evs) == AlternatesFrom(evs, 1, <<>>)

\* the sequence has ended with None and no item of it is an error
EndedErrorFree == rlast.item = ItemNone /\ ErrorFree(items)

\* C12: the events of a sequence that the Reader delivers without an error
\* item alternate inside every dictionary: a String key, then one complete
\* value, repeated up to the EndDictionary.
C12_DictionaryAlternation == EndedErrorFree => Alternates(OkEvents(items))

\* StartPlist, one value, EndPlist
DocumentShape(evs) ==
    /\ Len(evs) >= 3
    /\ Head(evs) = StartPlist
    /\ Last(evs) = EndPlist
    /\ ValueEnd(evs, 2) = Len(evs)

\* C13: the events of a sequence that the Reader delivers without an error
\* item are StartPlist, exactly one top-level value, EndPlist.
C13_DocumentShape ==
    (EndedErrorFree /\ OkEvents(items) # <<>>) => DocumentShape(OkEvents(items))

\* ------------------------------------------------------- the length hints

\* the hints put in place of the hints of the written Start events
HintChoices == {<<>>, <<2>>}

StartKinds == {"StartArray", "StartDictionary"}

StartPositions(evs) == {i \in 1..Len(evs) : evs[i].kind \in StartKinds}

\* the events evs with the hint hs[i] on the Start event at i
Rehinted(evs, hs) ==
    [i \in 1..Len(evs) |-> IF i \in DOMAIN hs THEN [evs[i] EXCEPT !.hint = hs[i]] ELSE evs[i]]

\* what the calls of write on the events evs[i..] return, leave as the frame
\* stack and emit, on a Writer in state w
RECURSIVE WriteAll(_, _, _)
WriteAll(evs, i, w) ==
    IF i > Len(evs) THEN <<>>
    ELSE LET w1 == write([w EXCEPT !.result = Ok], evs[i])
         IN  <<[result |-> w1.result, after |-> w1.stack,
                emitted |-> SubSeq(w1.out, Len(w.out) + 1, Len(w1.out))]>>
                 \o WriteAll(evs, i + 1, w1)

FreshWriter == [stack |-> <<>>, out |-> <<>>, result |-> Ok]

\* C14: event sequences that differ only in the hints of their StartArray
\* and StartDictionary events get the same result from every write call,
\* the same frame stack after every call and the same emitted tokens; and
\* every StartArray and StartDictionary that the Reader emits has the hint
\* None.
C14_HintsAdvisory ==
    /\ \A hs \in [StartPositions(WrittenEvents) -> HintChoices] :
          LET run == WriteAll(Rehinted(WrittenEvents, hs), 1, FreshWriter)
          IN  \A i \in 1..Len(calls) :
                  /\ run[i].result = calls[i].result
                  /\ run[i].after = calls[i].after
                  /\ run[i].emitted = calls[i].emitted
    /\ \A i \in 1..Len(items) : items[i].tag = "Ok" => items[i].ev.hint = <<>>

\* an array with the hint Some(1) inside a dictionary with the hint None,
\* written to the end of the document
C14_Witness ==
    /\ Len(calls) = 4
    /\ calls[1].event = StartDictionary(<<>>)
    /\ calls[3].event = StartArray(<<1>>)
    /\ calls[3].result = Ok
    /\ calls[4].event = EndArray
    /\ calls[4].result = Ok

\* ------------------------------------------------- the reader's mapping

ContainerNames == {"plist", "array", "dict"}

TextNames == {"key", "string", "integer", "real", "data", "date"}

BooleanNames == {"true", "false"}

\* the text of a leaf element can be decoded
Decodable(name, text) ==
    CASE name \in {"key", "string"} -> TRUE
      [] name = "integer" -> ParseInt(text).ok
      [] name = "real" -> ParseReal(text).ok
      [] name = "data" -> FromBase64(text).ok
      [] name = "date" -> ParseRfc3339(text).ok

\* the event of a leaf element with its text
Decoded(name, text) ==
    CASE name \in {"key", "string"} -> StringValue(text)
      [] name = "integer" -> IntegerValue(ParseInt(text).val)
      [] name = "real" -> RealValue(ParseReal(text).val)
      [] name = "data" -> DataValue(FromBase64(text).val)
      [] name = "date" -> DateValue(ParseRfc3339(text).val)

\* the scan of the tags with a stack of the open element names
RECURSIVE TagsNestFrom(_, _, _)
TagsNestFrom(ts, i, open) ==
    IF i > Len(ts) THEN open = <<>>
    ELSE IF ts[i].t = "StartElement" THEN TagsNestFrom(ts, i + 1, Append(open, ts[i].name))
    ELSE IF ts[i].t = "EndElement"
    THEN TopIs(open, ts[i].name) /\ TagsNestFrom(ts, i + 1, Front(open))
    ELSE TagsNestFrom(ts, i + 1, open)

\* a token stream of known elements whose tags nest, whose text elements
\* hold one decodable text and whose true and false elements hold nothing
WellFormedTokens(ts) ==
    /\ TagsNestFrom(ts, 1, <<>>)
    /\ \A i \in 1..Len(ts) :
          ts[i].t = "StartElement" =>
              /\ ts[i].name \in ContainerNames \cup TextNames \cup BooleanNames
              /\ ts[i].name \in TextNames =>
                    /\ i + 2 <= Len(ts)
                    /\ ts[i + 1].t = "Characters"
                    /\ Decodable(ts[i].name, ts[i + 1].text)
                    /\ ts[i + 2].t = "EndElement"
              /\ ts[i].name \in BooleanNames => (i + 1 <= Len(ts) /\ ts[i + 1].t = "EndElement")

\* the events of the token at i: one for an opening tag, one for the closing
\* tag of a container, none for the closing tag of a leaf and for text
TokenEvents(ts, i) ==
    LET tok == ts[i] IN
    CASE tok.t = "StartElement" /\ tok.name = "plist" -> <<StartPlist>>
      [] tok.t = "StartElement" /\ tok.name = "array" -> <<StartArray(<<>>)>>
      [] tok.t = "StartElement" /\ tok.name = "dict" -> <<StartDictionary(<<>>)>>
      [] tok.t = "StartElement" /\ tok.name = "true" -> <<BooleanValue(TRUE)>>
      [] tok.t = "StartElement" /\ tok.name = "false" -> <<BooleanValue(FALSE)>>
      [] tok.t = "StartElement" /\ tok.name \in TextNames ->
            <<Decoded(tok.name, ts[i + 1].text)>>
      [] tok.t = "EndElement" /\ tok.name = "plist" -> <<EndPlist>>
      [] tok.t = "EndElement" /\ tok.name = "array" -> <<EndArray>>
      [] tok.t = "EndElement" /\ tok.name = "dict" -> <<EndDictionary>>
      [] OTHER -> <<>>

\* the items for a well-formed token stream: the events of its tokens in
\* source order, then None
MappedItems(ts) ==
    LET evs == Concat([i \in 1..Len(ts) |-> TokenEvents(ts, i)])
    IN  [i \in 1..Len(evs) |-> ItemOk(evs[i])] \o <<ItemNone>>

\* C15: for a well-formed token stream the Reader gives one event per
\* opening tag (StartPlist, StartArray(None), StartDictionary(None), the
\* String of a key or string, the Boolean of true or false, the parsed value
\* of integer, real, data and date) and one End event per closing array,
\* dict and plist tag, in source order; the closing tags of leaf elements
\* and the text between the elements give no event.
C15_ReaderMapping ==
    (phase = "read" /\ WellFormedTokens(tokens)) =>
        /\ IsPrefix(UpToNone(items), MappedItems(tokens))
        /\ rlast.tok = TEndDocument => UpToNone(items) = MappedItems(tokens)

\* a dictionary with a key and a value, between white space, read to the end
C15_Witness ==
    /\ phase = "read"
    /\ WellFormedTokens(tokens)
    /\ rlast.item = ItemNone
    /\ \E i \in 1..Len(tokens) : tokens[i] = TStartElement("key")
    /\ \E i \in 1..Len(tokens) : tokens[i].t = "Characters" /\ Head(tokens[i].text) = "\n"
    /\ Len(items) = 7

\* ------------------------------------------------- the writer's mapping

\* the emitter calls of a scalar event as a value
ScalarMarkup(ev) ==
    CASE ev.kind = "BooleanValue" ->
            <<XStartElement(ScalarTag(ev), <<>>), XEndElement(ScalarTag(ev))>>
      [] ev.kind = "IntegerValue" -> Element("integer", IntToString(ev.n))
      [] ev.kind = "RealValue" -> Element("real", RealToString(ev.real))
      [] ev.kind = "StringValue" -> Element("string", ev.text)
      [] ev.kind = "DataValue" -> Element("data", ToBase64(ev.bytes))
      [] ev.kind = "DateValue" -> Element("date", ToRfc3339(ev.date))

\* The scan of an event sequence that is to be one well-formed value, with
\* a stack of the open containers ("A", "K", "V" as above): for each event,
\* whether the sequence is well-formed up to it and the emitter calls it
\* stands for.  done says that the top-level value is complete.
RECURSIVE MarkupFrom(_, _, _, _)
MarkupFrom(evs, i, open, done) ==
    IF i > Len(evs) THEN <<>>
    ELSE LET ev == evs[i]
             k == ev.kind
             rest == [j \in 1..(Len(evs) - i + 1) |-> [ok |-> FALSE, emitted |-> <<>>]]
             opening == IF i = 1 THEN <<XStartElement("plist", <<VersionAttr>>)>> ELSE <<>>
             closing(after) == IF after = <<>> THEN <<XEndElement("plist")>> ELSE <<>>
             step(markup, after) ==
                 <<[ok |-> TRUE, emitted |-> opening \o markup \o closing(after)]>>
                     \o MarkupFrom(evs, i + 1, after, after = <<>>)
             below == IF TopIs(open, "V") THEN Append(Front(open), "K") ELSE open
         IN  IF done THEN rest
             ELSE IF TopIs(open, "K") THEN
                 IF k = "StringValue"
                 THEN step(Element("key", ev.text), Append(Front(open), "V"))
                 ELSE IF k = "EndDictionary"
                 THEN step(<<XEndElement("dict")>>, Front(open))
                 ELSE rest
             ELSE IF k \in ScalarKinds THEN step(ScalarMarkup(ev), below)
             ELSE IF k = "StartArray"
             THEN step(<<XStartElement("array", <<>>)>>, Append(below, "A"))
             ELSE IF k = "StartDictionary"
             THEN step(<<XStartElement("dict", <<>>)>>, Append(below, "K"))
             ELSE IF k = "EndArray" /\ TopIs(open, "A")
             THEN step(<<XEndElement("array")>>, Front(open))
             ELSE rest

Markup(evs) == MarkupFrom(evs, 1, <<>>, FALSE)

\* C16: for a well-formed event sequence every write returns Ok, and the
\* emitted tokens are <plist version="1.0">, then the element of each event
\* in order (<key> for a String in key position, <string> for a String in
\* value position, <array>, </array>, <dict>, </dict>, the scalar's own
\* element), then </plist>, emitted by the call that completes the
\* top-level value.
C16_WriterMapping ==
    LET expected == Markup(WrittenEvents)
    IN  \A i \in 1..Len(calls) :
            expected[i].ok =>
                /\ calls[i].result = Ok
                /\ calls[i].emitted = expected[i].emitted
                /\ (calls[i].after = <<>>) <=> (Last(calls[i].emitted) = XEndElement("plist"))

\* a dictionary of one key and one value written from <plist> to </plist>
C16_Witness ==
    /\ Len(calls) = 4
    /\ WellFormed(WrittenEvents)
    /\ calls[1].event.kind = "StartDictionary"
    /\ calls[2].emitted = Element("key", calls[2].event.text)
    /\ Last(calls[4].emitted) = XEndElement("plist")
    /\ stack = <<>>

\* ---------------------------------------------------- the writer's frames

\* calls j..i are the events of exactly one complete value
OneValue(j, i) ==
    j <= i /\ ValueEnd(SubSeq(WrittenEvents, j, i), 1) = i - j + 2

\* C17: with Dictionary(ExpectValue) on top the frame is set to ExpectKey
\* before the event is dispatched; after one complete value (a scalar, or a
\* nested container from its Start to its matching End) the dictionary
\* frame is in ExpectKey and the next call is accepted exactly for a String
\* or an EndDictionary; while the nested container is open the frame below
\* it stays ExpectKey.
C17_PhaseFlip ==
    /\ \A p \in 1..(Len(stack) - 1) : stack[p] # Dictionary(ExpectValue)
    /\ \A j \in 1..Len(calls) :
          LET c == calls[j]
              d == Len(c.before)
          IN  TopIs(c.before, Dictionary(ExpectValue)) =>
              /\ Len(c.after) >= d => c.after[d] = Dictionary(ExpectKey)
              /\ c.event.kind \in StartKinds =>
                    (c.result = Ok /\ Len(c.after) = d + 1 /\ Front(Front(c.after)) = Front(c.before))
              /\ \A i \in j..Len(calls) :
                    OneValue(j, i) =>
                        /\ \A k \in j..i : calls[k].result = Ok
                        /\ \A k \in j..(i - 1) :
                              Len(calls[k].after) > d /\ calls[k].after[d] = Dictionary(ExpectKey)
                        /\ calls[i].after = Append(Front(c.before), Dictionary(ExpectKey))
                        /\ i < Len(calls) =>
                              (calls[i + 1].result = Ok
                                  <=> calls[i + 1].event.kind \in {"StringValue", "EndDictionary"})

\* an array written as the value of a key from its Start to its End, and
\* then a value with no key rejected
C17_Witness ==
    /\ Len(calls) = 5
    /\ TopIs(calls[3].before, Dictionary(ExpectValue))
    /\ calls[3].event.kind = "StartArray"
    /\ OneValue(3, 4)
    /\ calls[5].event.kind = "IntegerValue"
    /\ calls[5].result = InvalidData

\* C20: after any sequence of write calls the frame stack is empty or has
\* Root as its bottom frame and nowhere else; a call that emits </plist>
\* returns Ok, the pop of maybe_end_plist always finding Root; and no
\* successful write leaves the stack at exactly <<Root>>.
C20_RootAtBottom ==
    /\ stack # <<>> => (stack[1] = Root /\ \A p \in 2..Len(stack) : stack[p] # Root)
    /\ \A i \in 1..Len(calls) :
          LET c == calls[i] IN
          /\ (c.emitted # <<>> /\ Last(c.emitted) = XEndElement("plist"))
                => (c.result = Ok /\ c.after = <<>>)
          /\ c.result = Ok => c.after # <<Root>>

\* a failed call has left <<Root>> alone, and the next call has written a
\* value and closed the document
C20_Witness ==
    \E i \in 1..(Len(calls) - 1) :
        /\ calls[i].result = InvalidData
        /\ calls[i].after = <<Root>>
        /\ calls[i + 1].result = Ok
        /\ calls[i + 1].after = <<>>

\* -------------------------------------------------- the reader's leaves

\* the token that the tokenizer hands out after n tokens
TokenAfter(n) == IF n < Len(tokens) THEN tokens[n + 1] ELSE TEndDocument

\* C18: after the opening tag of key, string, integer, real, data or date
\* the Reader takes exactly the next token of the tokenizer; the item is the
\* event decoded from that token's text if it is a text token, and
\* InvalidData if it is anything else or the text does not decode.  After
\* the opening tag of true or false it gives the Boolean and takes no
\* further token.
C18_LeafContent ==
    [][ LET tok == TokenAfter(pos)
            content == TokenAfter(pos + 1)
        IN  (phase = "read" /\ tok.t = "StartElement") =>
            /\ tok.name \in TextNames =>
                  /\ pos' = IF pos + 2 <= Len(tokens) THEN pos + 2 ELSE Len(tokens)
                  /\ rlast'.item =
                        IF content.t = "Characters" /\ Decodable(tok.name, content.text)
                        THEN ItemOk(Decoded(tok.name, content.text))
                        ELSE ItemErr(InvalidData)
            /\ tok.name \in BooleanNames =>
                  /\ pos' = pos + 1
                  /\ rlast'.item = ItemOk(BooleanValue(tok.name = "true"))
      ]_vars

\* an integer read from its text, then a key at the end of the input
C18_Witness ==
    /\ Len(items) = 2
    /\ items[1] = ItemOk(IntegerValue(7))
    /\ items[2] = ItemErr(InvalidData)
    /\ rlast.tok = TStartElement("key")
    /\ pos = Len(tokens)

\* ------------------------------------------------- the bridge's integers

RECURSIVE BytesOf(_, _)
\* the len bytes that write the natural number n in base 256
BytesOf(n, len) ==
    IF len = 0 THEN <<>> ELSE Append(BytesOf(n \div 256, len - 1), n % 256)

\* the event of the one write call made by the i-th serialization
IntegerEvent(i) == calls[ser[i].to].event

\* C21: serialize_u64(v) emits an Integer event whose payload has the
\* numeric value of v, never a negative number, for every u64 v, and
\* serialize_i64 emits an Integer event that holds its argument unchanged.
C21_IntegerFidelity ==
    \A i \in 1..Len(ser) :
        ser[i].value.k \in {"i64", "u64"} =>
            /\ ser[i].to = ser[i].from + 1
            /\ IntegerEvent(i).kind = "IntegerValue"
            /\ ser[i].value.k = "i64" => IntegerEvent(i).n = ser[i].value.p.n
            /\ ser[i].value.k = "u64" =>
                   /\ IntegerEvent(i).n >= 0
                   /\ BytesOf(IntegerEvent(i).n, Len(ser[i].value.p.bytes))
                          = ser[i].value.p.bytes

====
